---------------------------- MODULE Spec2Model ----------------------------
(***************************************************************************)
(* Number partitioning with variational quantum algorithms.                *)
(*                                                                         *)
(* Two notebooks are modelled:                                             *)
(*   - the QAOA notebook (src/unnamed/part_001): cost Hamiltonian, mixer,  *)
(*     circuit, sampled objective, COBYLA call, final run, decoding;       *)
(*   - the VQE notebook (src/Number_partition_VQE.ipynb): create_ansatz,   *)
(*     expectation_value (exact mode), COBYLA call with maxiter.           *)
(*                                                                         *)
(* The quantum simulator (cirq) and the optimizer (scipy) are external     *)
(* collaborators.  Sampling (simulator.run) is a nondeterministic oracle: a *)
(* run returns any batch of bitstrings, or raises.  The exact simulation   *)
(* (simulator.simulate) is computed: the circuit is applied gate by gate   *)
(* to |0...0>, with the angles on the quarter-turn grid (a parameter k     *)
(* stands for the angle k*pi/2) and the amplitudes kept as Gaussian        *)
(* integers up to one common positive factor; it may also raise.  Python   *)
(* lists are 0-based; the sequences below are 1-based and At(s, i) reads   *)
(* s[i].                                                                   *)
(*                                                                         *)
(* Five specifications share the variables:                                *)
(*   Spec        the QAOA notebook from a fresh kernel, through the        *)
(*               problem definition, to the result of minimize;            *)
(*   SpecDecode  the final run and the decoding cell;                      *)
(*   SpecQAOA    the whole QAOA notebook, Spec followed by SpecDecode;     *)
(*   SpecExample the final run and the decoding for numbers = [1,1,2,2];   *)
(*   SpecVQE     create_ansatz and expectation_value.                      *)
(***************************************************************************)
EXTENDS Integers, Sequences, FiniteSets, TLC

\* ------------------------------------------------------------- bounds
\* Longest list of numbers (the notebooks draw 6).
MaxN == 3
\* Shots in one batch (the notebooks ask for 500 and 1000 repetitions); see
\* ShotsFor for the small registers.
MaxShots == 2
\* Objective evaluations explored in one run of minimize.
MaxEvals == 2
\* Longest parameter vector handed to create_ansatz.
MaxParams == 12

\* The values a number may take (the notebooks draw from -10..99).
Vals == {-1, 0, 2}

\* ------------------------------------------------------------ helpers
\* Python's s[i] for a 0-based index i.
At(s, i) == s[i + 1]

\* Python's range(lo, hi) as a sequence.
Range(lo, hi) == [k \in 1 .. (IF hi > lo THEN hi - lo ELSE 0) |-> lo + k - 1]

RECURSIVE SumSeq(_)
\* Python's sum(...) over a list of integers.
SumSeq(s) == IF s = << >> THEN 0 ELSE Head(s) + SumSeq(Tail(s))

RECURSIVE Concat(_)
\* The concatenation of a sequence of sequences.
Concat(ss) == IF ss = << >> THEN << >> ELSE Head(ss) \o Concat(Tail(ss))

RECURSIVE Pow(_, _)
\* Python's b ** e for a non-negative integer exponent.
Pow(b, e) == IF e = 0 THEN 1 ELSE b * Pow(b, e - 1)

\* All lists of numbers of length 1 .. MaxN.
NumberLists == UNION {[1 .. n -> Vals] : n \in 1 .. MaxN}

\* All bitstrings (one bit per qubit) of n bits.
Bitstrings(n) == [1 .. n -> {0, 1}]

\* The largest batch tried on n qubits: MaxShots shots, and one shot more on
\* the small registers, of at most (MaxN + 1) / 2 qubits.
ShotsFor(n) == IF 2 * n <= MaxN + 1 THEN MaxShots + 1 ELSE MaxShots

\* All batches of 1 .. ShotsFor(n) shots on n qubits.
Batches(n) == UNION {[1 .. m -> Bitstrings(n)] : m \in 1 .. ShotsFor(n)}

VARIABLES
    pc,             \* the cell (or the step inside a cell) that runs next
    numbers,        \* numbers
    \* --- QAOA notebook: Hamiltonian, circuit, optimization
    cost_terms,     \* cost_terms: the ZZ ** weight gates, in append order
    constant_term,  \* constant_term
    mixer,          \* mixer: the X gates
    circuit,        \* circuit: the operations in append order
    nfev,           \* objective evaluations that minimize has started
    oracle_calls,   \* calls of simulator.run / simulator.simulate so far
    oracle_status,  \* what the last oracle call did: "idle", "ok", "failed"
    run_result,     \* objective's result.measurements['result']: << >> or << batch >>
    fval,           \* the value objective is returning: << >> or << value >>
    result,         \* result of minimize: << >> or << [nfev |-> ...] >>
    \* --- decoding cell
    measurements,   \* measurements of the final run
    shots_done,     \* iterations of the aggregation loop completed
    partition_costs,    \* the dict, as its items in insertion order
    min_cost,           \* min_cost: << >> or << value >>
    optimal_partitions, \* optimal_partitions
    table_data,         \* table_data
    \* --- VQE notebook: create_ansatz and expectation_value
    params,         \* the parameter vector handed to expectation_value
    ansatz,         \* what create_ansatz did: << >> or << record >>
    state_vector,   \* the simulated state: << >> or << probabilities >>
    energy          \* what expectation_value returned: << >> or << fraction >>

encVars == <<cost_terms, constant_term, mixer, circuit>>
optVars == <<nfev, run_result, fval, result>>
oracleVars == <<oracle_calls, oracle_status>>
decVars == <<measurements, shots_done, partition_costs, min_cost,
             optimal_partitions, table_data>>
vqeVars == <<params, ansatz, state_vector, energy>>

vars == <<pc, numbers, encVars, optVars, oracleVars, decVars, vqeVars>>

\* n_qubits = len(numbers)
n_qubits == Len(numbers)

\* The cell "Define the Problem" has assigned numbers, n_qubits and qubits.
NumbersDefined == pc \notin {"define", "define_raised", "name_error"}

\* ------------------------------------------------ problem definition (QAOA)
\* What the cell "Define the Problem" may do.  As written, its first line
\* np.seed(42) raises AttributeError (numpy has no attribute seed) before
\* numbers, n_qubits and qubits are assigned: << >>.  With that line taken
\* out and the random draw replaced by a list of numbers (the cell's comment
\* invites replacing it by any other set of numbers), numbers is that list:
\* << ns >>.
DefineOutcomes == {<< >>} \cup {<< ns >> : ns \in NumberLists}

\* The cell "Define the Problem".
DefineProblem ==
    /\ pc = "define"
    /\ \E outcome \in DefineOutcomes :
          IF outcome = << >>
          THEN /\ pc' = "define_raised"
               /\ numbers' = numbers
          ELSE /\ numbers' = outcome[1]
               /\ pc' = "cost"
    /\ UNCHANGED <<encVars, optVars, oracleVars, decVars, vqeVars>>

\* A later cell run after the cell "Define the Problem" raised: it reads
\* n_qubits, qubits or numbers, none of which was assigned, raises NameError
\* and assigns nothing.
LaterCellRaises ==
    /\ pc = "define_raised"
    /\ pc' = "name_error"
    /\ UNCHANGED <<numbers, encVars, optVars, oracleVars, decVars, vqeVars>>

\* ------------------------------------------------ cost Hamiltonian (QAOA)
\* PairLoop with the inner loop started at i instead of i+1.
PairLoopFromI(n) ==
    Concat([k \in 1 .. n |-> [l \in 1 .. (n - k + 1) |-> <<k - 1, k - 2 + l>>]])

\* for i in range(n): for j in range(i+1, n): the (i, j) visited, in order.
PairLoop(n) ==
    Concat([k \in 1 .. n |-> [l \in 1 .. (n - k) |-> <<k - 1, k - 1 + l>>]])

\* weight = 2 * numbers[i] * numbers[j]
Weight(nums, i, j) == 2 * At(nums, i) * At(nums, j)

\* constant_term = sum(a*a for a in numbers)
ConstantTerm(nums) == SumSeq([k \in 1 .. Len(nums) |-> nums[k] * nums[k]])

\* cost_terms after the loop: cirq.ZZ(qubits[i], qubits[j]) ** weight
CostTerms(nums) ==
    LET ps == PairLoop(Len(nums))
    IN  [k \in 1 .. Len(ps) |->
            [gate |-> "ZZ", i |-> ps[k][1], j |-> ps[k][2],
             weight |-> Weight(nums, ps[k][1], ps[k][2])]]

\* The cell "Build Cost Hamiltonian".
BuildCostHamiltonian ==
    /\ pc = "cost"
    /\ constant_term' = ConstantTerm(numbers)
    /\ cost_terms' = CostTerms(numbers)
    /\ pc' = "mixer"
    /\ UNCHANGED <<numbers, mixer, circuit, optVars, oracleVars, decVars,
                   vqeVars>>

\* mixer = [cirq.X(q) for q in qubits]
Mixer(n) == [k \in 1 .. n |-> [gate |-> "X", q |-> k - 1]]

\* The cell "Build Mixing Hamiltonian".
BuildMixer ==
    /\ pc = "mixer"
    /\ mixer' = Mixer(n_qubits)
    /\ pc' = "circuit"
    /\ UNCHANGED <<numbers, cost_terms, constant_term, circuit, optVars,
                   oracleVars, decVars, vqeVars>>

\* ------------------------------------------------------- QAOA circuit
\* The operations appended to the circuit, in order: H on each qubit, every
\* cost term ** gamma, every mixer term ** beta, the measurement.
QaoaCircuitMixerFirst(n, terms, mix) ==
    [k \in 1 .. n |-> [gate |-> "H", q |-> k - 1]]
    \o [k \in 1 .. Len(mix) |->
          [gate |-> "X", q |-> mix[k].q, param |-> "beta"]]
    \o [k \in 1 .. Len(terms) |->
          [gate |-> "ZZ", i |-> terms[k].i, j |-> terms[k].j,
           weight |-> terms[k].weight, param |-> "gamma"]]
    \o << [gate |-> "measure", qs |-> Range(0, n), key |-> "result"] >>

QaoaCircuit(n, terms, mix) ==
    [k \in 1 .. n |-> [gate |-> "H", q |-> k - 1]]
    \o [k \in 1 .. Len(terms) |->
          [gate |-> "ZZ", i |-> terms[k].i, j |-> terms[k].j,
           weight |-> terms[k].weight, param |-> "gamma"]]
    \o [k \in 1 .. Len(mix) |->
          [gate |-> "X", q |-> mix[k].q, param |-> "beta"]]
    \o << [gate |-> "measure", qs |-> Range(0, n), key |-> "result"] >>

\* The cell "QAOA circuit construction".
BuildCircuit ==
    /\ pc = "circuit"
    /\ circuit' = QaoaCircuit(n_qubits, cost_terms, mixer)
    /\ pc' = "minimize"
    /\ UNCHANGED <<numbers, cost_terms, constant_term, mixer, optVars,
                   oracleVars, decVars, vqeVars>>

\* ------------------------------------------------- sampled objective
\* (-1)**b for a measured bit b.
SignOfBit(b) == Pow(-1, b)

\* (sum(numbers[i]*(-1)**b for i, b in enumerate(bs)))**2
ShotEnergy(nums, bs) ==
    Pow(SumSeq([k \in 1 .. Len(bs) |-> nums[k] * SignOfBit(bs[k])]), 2)

\* np.mean(xs) of a non-empty list of integers, as the fraction num / den.
Mean(xs) == [num |-> SumSeq(xs), den |-> Len(xs)]

\* energy_from_measurements with constant_term added on top of the mean.
energy_plus_constant(nums, ms) ==
    [num |-> SumSeq([k \in 1 .. Len(ms) |-> ShotEnergy(nums, ms[k])])
             + Len(ms) * SumSeq([k \in 1 .. Len(nums) |-> nums[k] * nums[k]]),
     den |-> Len(ms)]

\* energy_from_measurements(measurements)
energy_from_measurements(nums, ms) ==
    Mean([k \in 1 .. Len(ms) |-> ShotEnergy(nums, ms[k])])

\* objective with the oracle's failure caught and reported as the value 0.
ObjectiveSwallow(nums, outcome) ==
    IF outcome = << >>
    THEN [raised |-> FALSE, value |-> << [num |-> 0, den |-> 1] >>]
    ELSE [raised |-> FALSE,
          value |-> << [num |-> SumSeq([k \in 1 .. Len(outcome[1]) |->
                                          ShotEnergy(nums, outcome[1][k])]),
                        den |-> Len(outcome[1])] >>]

\* What objective(params) hands back for an oracle outcome: the outcome is
\* << >> when simulator.run raised (the exception leaves objective, which has
\* no handler) and << batch >> when it returned measurements.
ObjectiveReturn(nums, outcome) ==
    IF outcome = << >>
    THEN [raised |-> TRUE, value |-> << >>]
    ELSE [raised |-> FALSE,
          value |-> << energy_from_measurements(nums, outcome[1]) >>]

\* ------------------------------------------------------------ minimize
\* What the oracle may answer to simulator.run on n qubits: << >> when it
\* raises, << batch >> when it returns the measurements of a batch.
RunOutcomes(n) == {<< >>} \cup {<<b>> : b \in Batches(n)}

\* The point minimize hands to its k-th call of objective: a vector of two
\* angles (gamma, beta), initial for k = 1.  The angles are chosen inside
\* numpy and scipy; the model names them by distinct numbers.
PointOf(k) == <<2 * k - 1, 2 * k>>

\* objective with the vector it is given reset in place.
ObjectiveParamsReset(ps) == [k \in DOMAIN ps |-> 0]

\* The vector params as objective leaves it: objective reads params[0] and
\* params[1] into the resolver and assigns to no element.
ObjectiveParams(ps) == ps

\* One call of objective(params) made by minimize: resolve the parameters,
\* run the circuit (the oracle returns a batch or raises), return the energy.
\* An exception raised by the oracle leaves objective and then minimize.
Objective ==
    /\ pc = "minimize"
    /\ nfev < MaxEvals
    /\ params' = ObjectiveParams(PointOf(nfev + 1))
    /\ \E outcome \in RunOutcomes(n_qubits) :
         LET r == ObjectiveReturn(numbers, outcome)
         IN  /\ oracle_status' = IF outcome = << >> THEN "failed" ELSE "ok"
             /\ run_result' = outcome
             /\ fval' = r.value
             /\ pc' = IF r.raised THEN "raised" ELSE "evaluated"
    /\ nfev' = nfev + 1
    /\ oracle_calls' = oracle_calls + 1
    /\ UNCHANGED <<numbers, encVars, result, decVars, ansatz, state_vector,
                   energy>>

\* objective has returned: minimize takes the value and goes on; the locals
\* of objective are gone.
MinimizeStep ==
    /\ pc = "evaluated"
    /\ run_result' = << >>
    /\ fval' = << >>
    /\ params' = << >>
    /\ pc' = "minimize"
    /\ UNCHANGED <<numbers, encVars, nfev, result, oracleVars, decVars,
                   ansatz, state_vector, energy>>

\* minimize returns its OptimizeResult after at least one evaluation.  Which
\* evaluated point it reports (result.x, result.fun) and when it stops are
\* decided inside scipy; the model keeps only the number of evaluations.
MinimizeReturn ==
    /\ pc = "minimize"
    /\ nfev >= 1
    /\ result' = << [nfev |-> nfev] >>
    /\ pc' = "optimized"
    /\ UNCHANGED <<numbers, encVars, nfev, run_result, fval, oracleVars,
                   decVars, vqeVars>>

\* ------------------------------------------------------------ decoding
\* bitstring_to_partition comparing each bit with the character '0', which
\* no measured bit equals: every spin is -1.
bitstring_to_partition_char(bits) == [k \in 1 .. Len(bits) |-> -1]

\* bitstring_to_partition(bits): [1 if bit == 0 else -1 for bit in bits]
bitstring_to_partition(bits) ==
    [k \in 1 .. Len(bits) |-> IF bits[k] = 0 THEN 1 ELSE -1]

\* Python's zip(xs, ys): as long as the shorter of the two.
ZipLen(xs, ys) == IF Len(xs) < Len(ys) THEN Len(xs) ELSE Len(ys)

\* compute_cost returning the signed sum itself, the square left out.
compute_cost_unsquared(nums, spin_assignment) ==
    SumSeq([k \in 1 .. ZipLen(nums, spin_assignment) |->
               nums[k] * spin_assignment[k]])

\* compute_cost(spin_assignment), reading the global numbers.
compute_cost(nums, spin_assignment) ==
    LET S == SumSeq([k \in 1 .. ZipLen(nums, spin_assignment) |->
                        nums[k] * spin_assignment[k]])
    IN  S * S

\* The position of key p among the dict's items, 0 when it is not a key.
DictIndex(d, p) ==
    IF \E k \in 1 .. Len(d) : d[k].partition = p
    THEN CHOOSE k \in 1 .. Len(d) : d[k].partition = p
    ELSE 0

\* AddShot with the count of a partition seen again left as it was.
AddShotNoIncrement(nums, d, bits) ==
    LET partition == bitstring_to_partition(bits)
    IN  IF DictIndex(d, partition) # 0
        THEN d
        ELSE Append(d, [partition |-> partition,
                        cost |-> compute_cost(nums, partition), count |-> 1])

\* AddShot adding the cost again to the stored cost of a partition seen
\* again.
AddShotAddCost(nums, d, bits) ==
    LET partition == bitstring_to_partition(bits)
        cost == compute_cost(nums, partition)
        at == DictIndex(d, partition)
    IN  IF at # 0
        THEN [d EXCEPT ![at].count = @ + 1, ![at].cost = @ + cost]
        ELSE Append(d, [partition |-> partition, cost |-> cost, count |-> 1])

\* The body of "for bits in bitstring_list": one shot added to the dict d.
AddShot(nums, d, bits) ==
    LET partition == bitstring_to_partition(bits)
        cost == compute_cost(nums, partition)
        at == DictIndex(d, partition)
    IN  IF at # 0
        THEN [d EXCEPT ![at].count = @ + 1]
        ELSE Append(d, [partition |-> partition, cost |-> cost, count |-> 1])

\* min(...) taken to be the first element of the list.
MinSeqFirst(xs) == xs[1]

RECURSIVE MinSeq(_)
\* Python's min(...) over a non-empty list.
MinSeq(xs) ==
    IF Len(xs) = 1 THEN xs[1]
    ELSE LET m == MinSeq(Tail(xs)) IN IF xs[1] <= m THEN xs[1] ELSE m

\* min_cost = min(info['cost'] for info in partition_costs.values())
MinCost(d) == MinSeq([k \in 1 .. Len(d) |-> d[k].cost])

\* FilterItems that stops at the first partition of cost m.
FilterFirst(d, m) ==
    IF \E k \in 1 .. Len(d) : d[k].cost = m
    THEN << d[CHOOSE k \in 1 .. Len(d) :
                 d[k].cost = m /\ \A l \in 1 .. (k - 1) : d[l].cost # m].partition >>
    ELSE << >>

RECURSIVE FilterItems(_, _)
\* [p for p, info in partition_costs.items() if info['cost'] == min_cost]
FilterItems(d, m) ==
    IF d = << >> THEN << >>
    ELSE (IF Head(d).cost = m THEN << Head(d).partition >> ELSE << >>)
         \o FilterItems(Tail(d), m)

RECURSIVE Subset(_, _, _, _)
\* [numbers[i] for i in range(i0, n_qubits) if partition[i] == spin]
Subset(nums, partition, spin, i0) ==
    IF i0 >= Len(nums) THEN << >>
    ELSE (IF At(partition, i0) = spin THEN << At(nums, i0) >> ELSE << >>)
         \o Subset(nums, partition, spin, i0 + 1)

\* TableRow with the squared difference (the cost) in the difference column.
TableRowSquared(nums, d, partition) ==
    LET sub_a == Subset(nums, partition, 1, 0)
        sub_b == Subset(nums, partition, -1, 0)
    IN  [partition |-> partition, sub_a |-> sub_a, sub_b |-> sub_b,
         diff |-> compute_cost(nums, partition),
         frequency |-> d[DictIndex(d, partition)].count]

\* TableRow with the difference taken as sum(subset B) - sum(subset A).
TableRowSwapped(nums, d, partition) ==
    LET sub_a == Subset(nums, partition, 1, 0)
        sub_b == Subset(nums, partition, -1, 0)
    IN  [partition |-> partition, sub_a |-> sub_a, sub_b |-> sub_b,
         diff |-> SumSeq(sub_b) - SumSeq(sub_a),
         frequency |-> d[DictIndex(d, partition)].count]

\* One row of table_data.
TableRow(nums, d, partition) ==
    LET sub_a == Subset(nums, partition, 1, 0)
        sub_b == Subset(nums, partition, -1, 0)
    IN  [partition |-> partition, sub_a |-> sub_a, sub_b |-> sub_b,
         diff |-> SumSeq(sub_a) - SumSeq(sub_b),
         frequency |-> d[DictIndex(d, partition)].count]

RECURSIVE AggregateAll(_, _, _)
\* The whole loop "for bits in bitstring_list" run on the batch ms, from the
\* dict d.
AggregateAll(nums, d, ms) ==
    IF ms = << >> THEN d
    ELSE AggregateAll(nums, AddShot(nums, d, Head(ms)), Tail(ms))

\* final_result = simulator.run(circuit, resolver, repetitions=1000) and
\* measurements = final_result.measurements['result']; the run may raise.
FinalRun ==
    /\ pc = "optimized"
    /\ \E outcome \in RunOutcomes(n_qubits) :
         /\ oracle_status' = IF outcome = << >> THEN "failed" ELSE "ok"
         /\ measurements' = IF outcome = << >> THEN << >> ELSE outcome[1]
         /\ pc' = IF outcome = << >> THEN "raised" ELSE "aggregate"
    /\ oracle_calls' = oracle_calls + 1
    /\ UNCHANGED <<numbers, encVars, optVars, shots_done, partition_costs,
                   min_cost, optimal_partitions, table_data, vqeVars>>

\* One iteration of the aggregation loop over the shots.
AggregateShot ==
    /\ pc = "aggregate"
    /\ shots_done < Len(measurements)
    /\ partition_costs' =
           AddShot(numbers, partition_costs, measurements[shots_done + 1])
    /\ shots_done' = shots_done + 1
    /\ UNCHANGED <<pc, numbers, encVars, optVars, oracleVars, measurements,
                   min_cost, optimal_partitions, table_data, vqeVars>>

\* After the loop: min_cost and optimal_partitions.
FindOptimal ==
    /\ pc = "aggregate"
    /\ shots_done = Len(measurements)
    /\ min_cost' = << MinCost(partition_costs) >>
    /\ optimal_partitions' = FilterItems(partition_costs, MinCost(partition_costs))
    /\ pc' = "table"
    /\ UNCHANGED <<numbers, encVars, optVars, oracleVars, measurements,
                   shots_done, partition_costs, table_data, vqeVars>>

\* table_data: one row for each optimal partition, in order.
BuildTable ==
    /\ pc = "table"
    /\ table_data' = [k \in 1 .. Len(optimal_partitions) |->
                         TableRow(numbers, partition_costs, optimal_partitions[k])]
    /\ pc' = "done"
    /\ UNCHANGED <<numbers, encVars, optVars, oracleVars, measurements,
                   shots_done, partition_costs, min_cost, optimal_partitions,
                   vqeVars>>

\* ------------------------------------------------- create_ansatz (VQE)
\* n_qubits + n_qubits*(n_qubits-1)//2: the parameters of one layer.
PerLayer(n) == n + (n * (n - 1)) \div 2

\* The parameter vectors tried: of every length 0 .. MaxParams, all angles
\* zero, all angles one quarter turn, or the k-th angle k quarter turns.  An
\* angle is held as a whole number of quarter turns: the value k stands for
\* the angle k*pi/2 handed to create_ansatz (0, pi/2, pi, 3*pi/2, ...), for
\* which the amplitudes of the simulated state have integer parts.
ParamVectors ==
    UNION {{[k \in 1 .. len |-> 0], [k \in 1 .. len |-> 1], [k \in 1 .. len |-> k]} :
              len \in 0 .. MaxParams}

\* The loop state of create_ansatz: the circuit so far, param_idx, how often
\* the check "param_idx < len(params)" failed, and whether a read of
\* params[param_idx] was out of range (IndexError).
AnsatzStart(n) ==
    [circuit |-> [k \in 1 .. n |-> [gate |-> "H", q |-> k - 1]],
     param_idx |-> 0, skipped |-> 0, error |-> FALSE]

RECURSIVE RxLoop(_, _, _, _)
\* for i in range(i0, n_qubits): circuit.append(cirq.rx(params[param_idx])
\* (qubits[i])); param_idx += 1
RxLoop(st, ps, i0, n) ==
    IF i0 >= n \/ st.error THEN st
    ELSE IF st.param_idx >= Len(ps) THEN [st EXCEPT !.error = TRUE]
    ELSE RxLoop([st EXCEPT
                    !.circuit = Append(@, [gate |-> "rx", q |-> i0,
                                           angle |-> At(ps, st.param_idx)]),
                    !.param_idx = @ + 1],
                ps, i0 + 1, n)

RECURSIVE ZZLoop(_, _, _)
\* for i ...: for j ...: if param_idx < len(params): circuit.append(
\* cirq.ZZPowGate(exponent=params[param_idx]/np.pi)(qubits[i], qubits[j]));
\* param_idx += 1      (pairs: the (i, j) still to visit)
ZZLoop(st, ps, pairs) ==
    IF pairs = << >> \/ st.error THEN st
    ELSE IF st.param_idx < Len(ps)
    THEN ZZLoop([st EXCEPT
                    !.circuit = Append(@, [gate |-> "ZZPow",
                                           i |-> Head(pairs)[1], j |-> Head(pairs)[2],
                                           angle |-> At(ps, st.param_idx)]),
                    !.param_idx = @ + 1],
                ps, Tail(pairs))
    ELSE ZZLoop([st EXCEPT !.skipped = @ + 1], ps, Tail(pairs))

RECURSIVE LayerLoopZZFirst(_, _, _, _)
\* LayerLoop with the ZZ rotations of a layer put before its rx rotations.
LayerLoopZZFirst(st, ps, n, layers) ==
    IF layers <= 0 \/ st.error THEN st
    ELSE LayerLoopZZFirst(RxLoop(ZZLoop(st, ps, PairLoop(n)), ps, 0, n),
                          ps, n, layers - 1)

RECURSIVE LayerLoop(_, _, _, _)
\* for _ in range(layers): the rx rotations, then the ZZ rotations.
LayerLoop(st, ps, n, layers) ==
    IF layers <= 0 \/ st.error THEN st
    ELSE LayerLoop(ZZLoop(RxLoop(st, ps, 0, n), ps, PairLoop(n)), ps, n, layers - 1)

\* create_ansatz with the layer count len(params) // n_qubits, the
\* parameters of the ZZ rotations left out of the count.
create_ansatz_rx_count(ps, n) ==
    LET n_layers == Len(ps) \div n
    IN  [n_layers |-> n_layers] @@ LayerLoop(AnsatzStart(n), ps, n, n_layers)

\* create_ansatz with the layer count rounded up, so that a started layer
\* is built too.
create_ansatz_ceil(ps, n) ==
    LET n_layers == (Len(ps) + PerLayer(n) - 1) \div PerLayer(n)
    IN  [n_layers |-> n_layers] @@ LayerLoop(AnsatzStart(n), ps, n, n_layers)

\* create_ansatz(params, qubits) on n qubits.
create_ansatz(ps, n) ==
    LET n_layers == Len(ps) \div PerLayer(n)
    IN  [n_layers |-> n_layers] @@ LayerLoop(AnsatzStart(n), ps, n, n_layers)

\* --------------------------------------------- expectation_value (VQE)
\* A state vector: for each basis state (bit k of x is the bit of qubit
\* k - 1) a complex amplitude [re, im] with integer parts.  The vector is
\* kept up to a common positive factor (the 1/sqrt(2) of a gate is left
\* out), so the probability of x is |amplitude|^2 / the sum of all.
BasisState(n, b) ==
    [x \in Bitstrings(n) |->
        IF x = b THEN [re |-> 1, im |-> 0] ELSE [re |-> 0, im |-> 0]]

\* The bitstring x with the bit of qubit q flipped.
FlipBit(x, q) == [x EXCEPT ![q + 1] = 1 - @]

\* cirq.H on qubit q: (|0> + |1>, |0> - |1>), times sqrt(2).
ApplyH(psi, q) ==
    [x \in DOMAIN psi |->
        IF x[q + 1] = 0
        THEN [re |-> psi[x].re + psi[FlipBit(x, q)].re,
              im |-> psi[x].im + psi[FlipBit(x, q)].im]
        ELSE [re |-> psi[FlipBit(x, q)].re - psi[x].re,
              im |-> psi[FlipBit(x, q)].im - psi[x].im]]

\* cos(k*pi/4) and sin(k*pi/4), both times sqrt(2) when k is odd.
QuarterCos(k) ==
    CASE k % 8 = 0 -> 1  [] k % 8 = 1 -> 1  [] k % 8 = 2 -> 0  [] k % 8 = 3 -> -1
      [] k % 8 = 4 -> -1 [] k % 8 = 5 -> -1 [] k % 8 = 6 -> 0  [] k % 8 = 7 -> 1

QuarterSin(k) ==
    CASE k % 8 = 0 -> 0  [] k % 8 = 1 -> 1  [] k % 8 = 2 -> 1  [] k % 8 = 3 -> 1
      [] k % 8 = 4 -> 0  [] k % 8 = 5 -> -1 [] k % 8 = 6 -> -1 [] k % 8 = 7 -> -1

\* cirq.rx(theta) on qubit q for theta = k*pi/2:
\* cos(theta/2) * I - i * sin(theta/2) * X.
ApplyRx(psi, q, k) ==
    LET c == QuarterCos(k)
        s == QuarterSin(k)
    IN  [x \in DOMAIN psi |->
            [re |-> c * psi[x].re + s * psi[FlipBit(x, q)].im,
             im |-> c * psi[x].im - s * psi[FlipBit(x, q)].re]]

\* The amplitude a times i^m.
TimesI(a, m) ==
    CASE m % 4 = 0 -> a
      [] m % 4 = 1 -> [re |-> 0 - a.im, im |-> a.re]
      [] m % 4 = 2 -> [re |-> 0 - a.re, im |-> 0 - a.im]
      [] m % 4 = 3 -> [re |-> a.im, im |-> 0 - a.re]

\* cirq.ZZPowGate(exponent=theta/pi) on qubits i, j for theta = k*pi/2: the
\* phase exp(i*theta) = i^k on the basis states whose two bits differ.
ApplyZZPow(psi, i, j, k) ==
    [x \in DOMAIN psi |->
        IF x[i + 1] # x[j + 1] THEN TimesI(psi[x], k) ELSE psi[x]]

\* One operation of a circuit applied to the state psi.
ApplyGate(psi, g) ==
    CASE g.gate = "H" -> ApplyH(psi, g.q)
      [] g.gate = "rx" -> ApplyRx(psi, g.q, g.angle)
      [] g.gate = "ZZPow" -> ApplyZZPow(psi, g.i, g.j, g.angle)

RECURSIVE RunCircuit(_, _)
\* The state after the operations of the circuit c, in order, from psi.
\* The comparison makes TLC tabulate each intermediate vector once instead
\* of re-deriving it for every amplitude read.
RunCircuit(psi, c) ==
    IF c = << >> THEN psi
    ELSE LET nxt == ApplyGate(psi, Head(c))
         IN  IF nxt = nxt THEN RunCircuit(nxt, Tail(c)) ELSE psi

\* simulator.simulate(circuit).final_state_vector: the circuit run from
\* |0...0>.
FinalStateVector(n, c) == RunCircuit(BasisState(n, [k \in 1 .. n |-> 0]), c)

\* What simulator.simulate(circuit) may do: raise (<< >>), or return the
\* final state of the circuit (<< state >>).
SimulateOutcomes(n, c) == {<< >>, << FinalStateVector(n, c) >>}

\* |amplitude|^2.
Norm2(a) == a.re * a.re + a.im * a.im

RECURSIVE SumSet(_, _)
\* The sum of f[x] over the finite set S.
SumSet(S, f) ==
    IF S = {} THEN 0
    ELSE LET x == CHOOSE y \in S : TRUE IN f[x] + SumSet(S \ {x}, f)

\* zz_op.expectation_from_state_vector(...).real for Z_i * Z_j, times the
\* squared norm of the vector d: Z is +1 on bit 0 and -1 on bit 1.
ZZWeighted(d, i, j) ==
    SumSet(DOMAIN d,
           [x \in DOMAIN d |->
               Norm2(d[x]) * (IF At(x, i) = 0 THEN 1 ELSE -1)
                           * (IF At(x, j) = 0 THEN 1 ELSE -1)])

\* The squared norm of the vector d (1 for the vector cirq returns).
TotalWeight(d) == SumSet(DOMAIN d, [x \in DOMAIN d |-> Norm2(d[x])])

\* expectation_value without the constant term.
ExpectationEnergyNoConstant(nums, d) ==
    LET ps == PairLoop(Len(nums))
    IN  [num |-> SumSeq([k \in 1 .. Len(ps) |->
                           2 * At(nums, ps[k][1]) * At(nums, ps[k][2])
                             * ZZWeighted(d, ps[k][1], ps[k][2])]),
         den |-> TotalWeight(d)]

\* expectation_value with the constant term sum(a) in place of sum(a*a).
ExpectationEnergyLinearConstant(nums, d) ==
    LET ps == PairLoop(Len(nums))
    IN  [num |-> SumSeq(nums) * TotalWeight(d)
                 + SumSeq([k \in 1 .. Len(ps) |->
                             2 * At(nums, ps[k][1]) * At(nums, ps[k][2])
                               * ZZWeighted(d, ps[k][1], ps[k][2])]),
         den |-> TotalWeight(d)]

\* The energy expectation_value computes from the state: sum(a*a) plus, for
\* i < j, weight * zz_val with weight = 2 * numbers[i] * numbers[j]; as the
\* fraction num / den.
ExpectationEnergy(nums, d) ==
    LET ps == PairLoop(Len(nums))
    IN  [num |-> SumSeq([k \in 1 .. Len(nums) |-> nums[k] * nums[k]]) * TotalWeight(d)
                 + SumSeq([k \in 1 .. Len(ps) |->
                             2 * At(nums, ps[k][1]) * At(nums, ps[k][2])
                               * ZZWeighted(d, ps[k][1], ps[k][2])]),
         den |-> TotalWeight(d)]

\* expectation_value(params), first statement: circuit = create_ansatz(...).
CreateAnsatz ==
    /\ pc = "ansatz"
    /\ ansatz' = << create_ansatz(params, n_qubits) >>
    /\ pc' = IF ansatz'[1].error THEN "raised" ELSE "simulate"
    /\ UNCHANGED <<numbers, encVars, optVars, oracleVars, decVars, params,
                   state_vector, energy>>

\* result = simulator.simulate(circuit); the simulation may raise, and the
\* exception leaves expectation_value.
Simulate ==
    /\ pc = "simulate"
    /\ \E outcome \in SimulateOutcomes(n_qubits, ansatz[1].circuit) :
         /\ oracle_status' = IF outcome = << >> THEN "failed" ELSE "ok"
         /\ state_vector' = outcome
         /\ pc' = IF outcome = << >> THEN "raised" ELSE "energy"
    /\ oracle_calls' = oracle_calls + 1
    /\ UNCHANGED <<numbers, encVars, optVars, decVars, params, ansatz, energy>>

\* The rest of expectation_value: the energy of the state, returned.
ComputeEnergy ==
    /\ pc = "energy"
    /\ energy' = << ExpectationEnergy(numbers, state_vector[1]) >>
    /\ pc' = "returned"
    /\ UNCHANGED <<numbers, encVars, optVars, oracleVars, decVars, params,
                   ansatz, state_vector>>

\* --------------------------------------------------- unset variables
\* A variable no cell has assigned yet holds << >> (0 for a counter).
EncUnset ==
    /\ cost_terms = << >>
    /\ constant_term = 0
    /\ mixer = << >>
    /\ circuit = << >>

OptUnset ==
    /\ nfev = 0
    /\ oracle_calls = 0
    /\ oracle_status = "idle"
    /\ run_result = << >>
    /\ fval = << >>
    /\ result = << >>

DecUnset ==
    /\ measurements = << >>
    /\ shots_done = 0
    /\ partition_costs = << >>
    /\ min_cost = << >>
    /\ optimal_partitions = << >>
    /\ table_data = << >>

VqeUnset ==
    /\ params = << >>
    /\ ansatz = << >>
    /\ state_vector = << >>
    /\ energy = << >>

\* ----------------------------------------------------- specification
\* The fresh kernel: no cell has run, nothing is assigned.
Init ==
    /\ pc = "define"
    /\ numbers = << >>
    /\ EncUnset
    /\ OptUnset
    /\ DecUnset
    /\ VqeUnset

Next ==
    \/ DefineProblem
    \/ LaterCellRaises
    \/ BuildCostHamiltonian
    \/ BuildMixer
    \/ BuildCircuit
    \/ Objective
    \/ MinimizeStep
    \/ MinimizeReturn

Spec == Init /\ [][Next]_vars

\* --------------------------------------- specification of the decoding
\* The state in which minimize has just returned: the Hamiltonian and the
\* circuit are built, and minimize made one evaluation.
InitDecode ==
    /\ pc = "optimized"
    /\ numbers \in NumberLists
    /\ constant_term = ConstantTerm(numbers)
    /\ cost_terms = CostTerms(numbers)
    /\ mixer = Mixer(n_qubits)
    /\ circuit = QaoaCircuit(n_qubits, cost_terms, mixer)
    /\ nfev = 1
    /\ oracle_calls = 1
    /\ oracle_status = "ok"
    /\ run_result = << >>
    /\ fval = << >>
    /\ result = << [nfev |-> 1] >>
    /\ DecUnset
    /\ VqeUnset

NextDecode ==
    \/ FinalRun
    \/ AggregateShot
    \/ FindOptimal
    \/ BuildTable

SpecDecode == InitDecode /\ [][NextDecode]_vars

\* ------------------------------- specification of the whole QAOA notebook
\* The cells of the QAOA notebook in order: Hamiltonian, mixer, circuit,
\* minimize with its objective evaluations, final run and decoding.
NextQAOA ==
    \/ Next
    \/ NextDecode

SpecQAOA == Init /\ [][NextQAOA]_vars

\* ------------------------------ specification of the decoding of 1,1,2,2
\* The number list of the worked example: numbers = [1, 1, 2, 2].
ExampleNumbers == <<1, 1, 2, 2>>

\* The state after minimize has returned, the numbers being the example's.
InitExample ==
    /\ pc = "optimized"
    /\ numbers = ExampleNumbers
    /\ constant_term = ConstantTerm(numbers)
    /\ cost_terms = CostTerms(numbers)
    /\ mixer = Mixer(n_qubits)
    /\ circuit = QaoaCircuit(n_qubits, cost_terms, mixer)
    /\ nfev = 1
    /\ oracle_calls = 1
    /\ oracle_status = "ok"
    /\ run_result = << >>
    /\ fval = << >>
    /\ result = << [nfev |-> 1] >>
    /\ DecUnset
    /\ VqeUnset

SpecExample == InitExample /\ [][NextDecode]_vars

\* ------------------------ specification of create_ansatz and the energy
\* expectation_value is called with a parameter vector of any length.
InitVQE ==
    /\ pc = "ansatz"
    /\ numbers \in NumberLists
    /\ params \in ParamVectors
    /\ ansatz = << >>
    /\ state_vector = << >>
    /\ energy = << >>
    /\ EncUnset
    /\ OptUnset
    /\ DecUnset

NextVQE ==
    \/ CreateAnsatz
    \/ Simulate
    \/ ComputeEnergy

SpecVQE == InitVQE /\ [][NextVQE]_vars

\* ===================================================================
\* Properties
\* ===================================================================
\* The sum of f[x] over the finite set S.
RECURSIVE SumOver(_, _)
SumOver(S, f) ==
    IF S = {} THEN 0
    ELSE LET x == CHOOSE y \in S : TRUE IN f[x] + SumOver(S \ {x}, f)

\* The spin of a measured bit: +1 for 0, -1 for 1.
Spin(bit) == IF bit = 0 THEN 1 ELSE -1

\* The signed sum of the numbers under the spins of a bitstring.
SignedSum(nums, bits) ==
    SumOver(1 .. Len(nums), [k \in 1 .. Len(nums) |-> nums[k] * Spin(bits[k])])

\* The Hamiltonian has been built.
HamiltonianBuilt == NumbersDefined /\ pc # "cost"

\* C1: once the cost Hamiltonian is built, constant_term is the sum of the
\* squares a_i^2, there are n(n-1)/2 pairwise terms, every index pair i < j
\* has exactly one term, and each term (i, j) has i < j and weight 2*a_i*a_j.
C1_Encoder ==
    HamiltonianBuilt =>
        /\ constant_term =
              SumOver(1 .. n_qubits, [k \in 1 .. n_qubits |-> numbers[k] * numbers[k]])
        /\ 2 * Len(cost_terms) = n_qubits * (n_qubits - 1)
        /\ \A i \in 0 .. (n_qubits - 1) : \A j \in (i + 1) .. (n_qubits - 1) :
              Cardinality({k \in 1 .. Len(cost_terms) :
                              cost_terms[k].i = i /\ cost_terms[k].j = j}) = 1
        /\ \A k \in 1 .. Len(cost_terms) :
              /\ 0 <= cost_terms[k].i
              /\ cost_terms[k].i < cost_terms[k].j
              /\ cost_terms[k].j < n_qubits
              /\ cost_terms[k].weight
                    = 2 * numbers[cost_terms[k].i + 1] * numbers[cost_terms[k].j + 1]

\* C1 witness: three numbers, three pairwise terms, the second of weight
\* 2*2*2 for the pair (0, 2).
C1_Witness ==
    /\ HamiltonianBuilt
    /\ numbers = <<2, -1, 2>>
    /\ Len(cost_terms) = 3
    /\ cost_terms[2] = [gate |-> "ZZ", i |-> 0, j |-> 2, weight |-> 8]
    /\ constant_term = 9

\* The number of shots among the first k that map to partition p.
ShotsOf(ms, k, p) ==
    Cardinality({l \in 1 .. k : [q \in 1 .. Len(ms[l]) |-> Spin(ms[l][q])] = p})

\* The count the dict d holds for partition p (0 when p is not a key).
CountOf(d, p) ==
    SumOver({k \in 1 .. Len(d) : d[k].partition = p},
            [k \in 1 .. Len(d) |-> d[k].count])

\* The sum of all counts of the dict d.
TotalCount(d) == SumOver(1 .. Len(d), [k \in 1 .. Len(d) |-> d[k].count])

\* All spin assignments on n qubits.
Partitions(n) == [1 .. n -> {1, -1}]

\* C2: during the aggregation the counts sum to the number of shots
\* processed, at the end to the number of shots M, and each processed shot
\* raises the count of exactly one partition (its own) by exactly 1.
C2_CountsSum ==
    /\ [](pc \in {"aggregate", "table", "done"} =>
            /\ TotalCount(partition_costs) = shots_done
            /\ shots_done <= Len(measurements)
            /\ pc \in {"table", "done"} => TotalCount(partition_costs) = Len(measurements))
    /\ [][shots_done' # shots_done =>
            /\ shots_done' = shots_done + 1
            /\ \A p \in Partitions(n_qubits) :
                  CountOf(partition_costs', p) =
                     CountOf(partition_costs, p)
                     + (IF p = [q \in 1 .. n_qubits |->
                                  Spin(measurements[shots_done + 1][q])]
                        THEN 1 ELSE 0)]_vars

\* C2 witness: two shots were aggregated into one partition of count 2.
C2_Witness ==
    /\ pc = "done"
    /\ Len(measurements) = 2
    /\ Len(partition_costs) = 1
    /\ partition_costs[1].count = 2

\* The partitions observed in the batch ms.
Observed(ms) == {[q \in 1 .. Len(ms[l]) |-> Spin(ms[l][q])] : l \in 1 .. Len(ms)}

\* The cost of partition p: the square of the signed sum.
CostOf(nums, p) ==
    LET S == SumOver(1 .. Len(nums), [k \in 1 .. Len(nums) |-> nums[k] * p[k]])
    IN  S * S

\* C3: after aggregation the reported partitions are exactly the observed
\* partitions of minimum cost among the observed ones, each reported once.
C3_AllMinimaReported ==
    pc \in {"table", "done"} =>
        LET obs == Observed(measurements)
            best == {p \in obs : \A q \in obs : CostOf(numbers, p) <= CostOf(numbers, q)}
        IN  /\ {optimal_partitions[k] : k \in 1 .. Len(optimal_partitions)} = best
            /\ Len(optimal_partitions) = Cardinality(best)
            /\ \A p \in best : min_cost = << CostOf(numbers, p) >>

\* C3 witness: all numbers are zero and two different partitions were
\* observed; both are reported.
C3_Witness ==
    /\ pc = "done"
    /\ \A k \in 1 .. n_qubits : numbers[k] = 0
    /\ n_qubits = 3
    /\ Len(partition_costs) = 2
    /\ Len(optimal_partitions) = 2

\* C4 (as claimed): once numbers is defined as a list of fewer than 2 numbers,
\* the encoder stops with a configuration error, and no oracle call is ever
\* made.
C4_ShortInputRejected ==
    (NumbersDefined /\ n_qubits < 2) =>
        (pc \in {"cost", "config_error"} /\ oracle_calls = 0)

\* C6: the value objective returns for a batch is the arithmetic mean over
\* its shots of S^2, S the signed sum of the numbers (+ for bit 0, - for bit
\* 1); constant_term is not added.
C6_SampledEnergy ==
    pc = "evaluated" =>
        LET ms == run_result[1]
        IN  /\ Len(fval) = 1
            /\ fval[1].den = Len(ms)
            /\ fval[1].num =
                  SumOver(1 .. Len(ms),
                          [l \in 1 .. Len(ms) |->
                              SignedSum(numbers, ms[l]) * SignedSum(numbers, ms[l])])

\* C6 witness: numbers <<2, -1>> and the shots 00 and 01 give (1 + 9) / 2,
\* while constant_term is 5.
C6_Witness ==
    /\ pc = "evaluated"
    /\ numbers = <<2, -1>>
    /\ run_result = << << <<0, 0>>, <<0, 1>> >> >>
    /\ fval = << [num |-> 10, den |-> 2] >>
    /\ constant_term = 5

\* C10: when the oracle fails in an objective evaluation, objective hands
\* no value to minimize, minimize does not return a result, and nothing
\* runs after the failure.
C10_OracleFailurePropagates ==
    /\ [](oracle_status = "failed" =>
            /\ pc = "raised"
            /\ fval = << >>
            /\ result = << >>)
    /\ [][oracle_status = "failed" => UNCHANGED vars]_vars

\* C10 witness: the second evaluation failed after a first one succeeded.
C10_Witness ==
    /\ oracle_status = "failed"
    /\ pc = "raised"
    /\ nfev = 2
    /\ oracle_calls = 2

\* C5 (as claimed): a parameter vector whose length is not a multiple of
\* one layer's parameter count is rejected by create_ansatz as a
\* configuration error; it never yields a circuit.
C5_BadLengthRejected ==
    (pc # "ansatz" /\ Len(params) % PerLayer(n_qubits) # 0) =>
        (pc = "config_error" /\ ansatz = << >>)

\* The bitstring of the spin assignment p: bit 0 for +1, bit 1 for -1.
BitsOf(p) == [k \in 1 .. Len(p) |-> IF p[k] = 1 THEN 0 ELSE 1]

\* C7: the exact-mode energy formula of expectation_value, evaluated on the
\* computational-basis state of an outcome, equals the decoder's cost
\* compute_cost = (sum_i a_i*s_i)^2 of that outcome's partition, and equals
\* constant_term + sum over the Hamiltonian's terms (i, j) of
\* weight*s_i*s_j, for every outcome of every number list drawn; and the
\* cost the decoder stored for every partition it observed is compute_cost
\* of that partition, the partition of one of those outcomes.
C7_ExactMatchesCost ==
    [](/\ pc = "optimized" =>
              \A b \in Bitstrings(n_qubits) :
                  LET e == ExpectationEnergy(numbers, BasisState(n_qubits, b))
                      s == bitstring_to_partition(b)
                  IN  /\ e.den = 1
                      /\ e.num = compute_cost(numbers, s)
                      /\ e.num = SignedSum(numbers, b) * SignedSum(numbers, b)
                      /\ e.num = constant_term
                                 + SumOver(1 .. Len(cost_terms),
                                           [k \in 1 .. Len(cost_terms) |->
                                               cost_terms[k].weight
                                               * s[cost_terms[k].i + 1]
                                               * s[cost_terms[k].j + 1]])
       /\ pc = "table" =>
              \A k \in 1 .. Len(partition_costs) :
                  LET p == partition_costs[k].partition
                  IN  /\ bitstring_to_partition(BitsOf(p)) = p
                      /\ partition_costs[k].cost = compute_cost(numbers, p))

\* C7 witness: numbers <<2, -1, -1>> and the outcome 100 observed: the
\* decoder stored the cost 16 = (-2 - 1 - 1)^2, and the exact-mode formula on
\* the basis state 100 gives 6 + (4 + 4 + 2) = 16.
C7_Witness ==
    /\ pc = "table"
    /\ numbers = <<2, -1, -1>>
    /\ constant_term = 6
    /\ measurements = << <<1, 0, 0>> >>
    /\ partition_costs = << [partition |-> <<-1, 1, 1>>, cost |-> 16, count |-> 1] >>
    /\ ExpectationEnergy(numbers, BasisState(3, <<1, 0, 0>>)) = [num |-> 16, den |-> 1]

\* The mirror of partition p: every spin negated.
Mirror(p) == [k \in DOMAIN p |-> 0 - p[k]]

\* The partitions reported as optimal.
Reported == {optimal_partitions[k] : k \in 1 .. Len(optimal_partitions)}

\* C11: compute_cost gives a partition and its mirror (all spins negated)
\* the same cost, for every spin assignment of the numbers drawn (numbers
\* does not change afterwards) and for every partition the dict holds; the
\* dict stores the same cost for both, and after the aggregation either
\* both of them are reported as optimal or neither is.
C11_MirrorSameCost ==
    /\ pc = "optimized" =>
          \A p \in Partitions(n_qubits) :
              compute_cost(numbers, p) = compute_cost(numbers, Mirror(p))
    /\ \A k \in 1 .. Len(partition_costs) :
          partition_costs[k].cost =
              compute_cost(numbers, Mirror(partition_costs[k].partition))
    /\ pc \in {"table", "done"} =>
          \A k, l \in 1 .. Len(partition_costs) :
              partition_costs[l].partition = Mirror(partition_costs[k].partition) =>
                 /\ partition_costs[k].cost = partition_costs[l].cost
                 /\ (partition_costs[k].partition \in Reported
                        <=> partition_costs[l].partition \in Reported)

\* C11 witness: a partition of cost 9 and its mirror were both observed and
\* both are reported.
C11_Witness ==
    /\ pc = "done"
    /\ numbers = <<2, -1, 2>>
    /\ Len(partition_costs) = 2
    /\ partition_costs[1].partition = <<1, 1, 1>>
    /\ partition_costs[2].partition = <<-1, -1, -1>>
    /\ partition_costs[1].cost = 9
    /\ partition_costs[2].cost = 9
    /\ optimal_partitions = << <<1, 1, 1>>, <<-1, -1, -1>> >>

\* C12 (as claimed): for numbers = [1, 1, 2, 2] the minimum cost over all 16
\* spin assignments is 0, and the partition with {1, 1} in one subset and
\* {2, 2} in the other achieves it: whenever it is observed it is reported
\* with sum difference 0.
C12_AsClaimed ==
    (pc = "done" /\ <<1, 1, -1, -1>> \in Observed(measurements)) =>
        /\ \A p \in Partitions(n_qubits) : compute_cost(numbers, p) >= 0
        /\ compute_cost(numbers, <<1, 1, -1, -1>>) = 0
        /\ \E k \in 1 .. Len(table_data) :
              /\ table_data[k].partition = <<1, 1, -1, -1>>
              /\ table_data[k].diff = 0

\* C12: for numbers = [1, 1, 2, 2] the minimum cost over all 16 spin
\* assignments is 0; it is achieved exactly by the four assignments with one
\* 1 and one 2 on each side, reported with subset sums 3 and 3 and sum
\* difference 0. The partition {1, 1} | {2, 2} has cost 4 and, when it is
\* reported, sum differences -2 and 2.
C12_ExampleMinimum ==
    /\ \A p \in Partitions(n_qubits) : compute_cost(numbers, p) >= 0
    /\ {p \in Partitions(n_qubits) : compute_cost(numbers, p) = 0}
          = {p \in Partitions(n_qubits) : p[1] # p[2] /\ p[3] # p[4]}
    /\ compute_cost(numbers, <<1, 1, -1, -1>>) = 4
    /\ compute_cost(numbers, <<-1, -1, 1, 1>>) = 4
    /\ pc = "done" =>
          \A k \in 1 .. Len(table_data) :
              LET row == table_data[k]
              IN  /\ compute_cost(numbers, row.partition) = 0 =>
                        /\ row.diff = 0
                        /\ SumSeq(row.sub_a) = 3
                        /\ SumSeq(row.sub_b) = 3
                  /\ row.partition = <<1, 1, -1, -1>> =>
                        (row.diff = -2 /\ row.sub_a = <<1, 1>> /\ row.sub_b = <<2, 2>>)
                  /\ row.partition = <<-1, -1, 1, 1>> =>
                        (row.diff = 2 /\ row.sub_a = <<2, 2>> /\ row.sub_b = <<1, 1>>)

\* C12 witness: {1, 1} | {2, 2} and a balanced partition were both observed;
\* the minimum is 0 and only the balanced one is reported, as {1, 2} | {1, 2}.
C12_Witness ==
    /\ pc = "done"
    /\ numbers = <<1, 1, 2, 2>>
    /\ measurements = << <<0, 0, 1, 1>>, <<0, 1, 1, 0>> >>
    /\ partition_costs[1].cost = 4
    /\ min_cost = <<0>>
    /\ Len(table_data) = 1
    /\ table_data[1].partition = <<1, -1, -1, 1>>
    /\ table_data[1].sub_a = <<1, 2>>
    /\ table_data[1].sub_b = <<1, 2>>
    /\ table_data[1].diff = 0

\* The batch ms with its shots reordered by the permutation f.
Permuted(ms, f) == [k \in 1 .. Len(ms) |-> ms[f[k]]]

\* The dict d as a mapping: its set of (partition, cost, count) entries.
Entries(d) == {d[k] : k \in 1 .. Len(d)}

\* C13: for every reordering of the shots of the batch, the sampled-mode
\* energy estimate is the same, and decoding the reordered batch gives the
\* same mapping partition -> (cost, count), the same minimum cost and the
\* same set of reported partitions as the decoding of the batch as sampled
\* (compared when the decoder has its result, before the table is printed).
C13_ShotOrderIrrelevant ==
    [](pc = "table" =>
        \A f \in Permutations(1 .. Len(measurements)) :
            LET ms2 == Permuted(measurements, f)
                d2 == AggregateAll(numbers, << >>, ms2)
                opt2 == FilterItems(d2, MinCost(d2))
            IN  /\ energy_from_measurements(numbers, ms2)
                      = energy_from_measurements(numbers, measurements)
                /\ Entries(d2) = Entries(partition_costs)
                /\ Len(d2) = Len(partition_costs)
                /\ << MinCost(d2) >> = min_cost
                /\ {opt2[k] : k \in 1 .. Len(opt2)} = Reported)

\* C13 witness: a batch of two shots of different cost, the dearer one
\* sampled first; only the second shot's partition is reported.
C13_Witness ==
    /\ pc = "table"
    /\ numbers = <<2, -1, 2>>
    /\ measurements = << <<0, 0, 0>>, <<0, 0, 1>> >>
    /\ partition_costs[1].cost = 9
    /\ partition_costs[2].cost = 1
    /\ min_cost = <<1>>
    /\ optimal_partitions = << <<1, 1, -1>> >>

\* C14: across the whole run (objective evaluations, then final sampling and
\* decoding) no step changes numbers once the problem is defined, and none
\* changes the Hamiltonian's terms or its constant once they are built; an
\* objective evaluation leaves the vector it was handed as it was handed,
\* changes nothing else that lasts (Hamiltonian, circuit, decoder state) and
\* returns the value fixed by numbers and the oracle's batch alone, whatever
\* was evaluated before.
C14_InputsUnmodified ==
    /\ [][NumbersDefined => numbers' = numbers]_vars
    /\ [][HamiltonianBuilt =>
             (cost_terms' = cost_terms /\ constant_term' = constant_term)]_vars
    /\ [][nfev' # nfev =>
             /\ params' = PointOf(nfev')
             /\ UNCHANGED <<encVars, result, decVars>>
             /\ pc' = "evaluated" =>
                   LET ms == run_result'[1]
                   IN  fval' = << [num |-> SumOver(1 .. Len(ms),
                                        [l \in 1 .. Len(ms) |->
                                            CostOf(numbers, [q \in 1 .. n_qubits |->
                                                                Spin(ms[l][q])])]),
                                   den |-> Len(ms)] >>]_vars

\* C14 witness: after two objective evaluations, the final sampling and the
\* decoding, numbers and the Hamiltonian are what the encoder built.
C14_Witness ==
    /\ pc = "done"
    /\ nfev = 2
    /\ numbers = <<2, -1, 2>>
    /\ constant_term = 9
    /\ Len(cost_terms) = 3
    /\ cost_terms[1].weight = -4
    /\ Len(measurements) = 2

\* Every parameter of the vector is 0.
AllParamsZero == \A k \in 1 .. Len(params) : params[k] = 0

\* C15: when every ansatz parameter is 0 the simulated state is the uniform
\* superposition (every basis state has the same weight), and the exact-mode
\* energy is the mean of (sum_i a_i*s_i)^2 over all 2^n spin assignments with
\* equal weight, which is constant_term = sum_i a_i^2.
C15_ZeroParamsUniform ==
    /\ (pc \in {"energy", "returned"} /\ AllParamsZero) =>
          /\ Len(state_vector) = 1
          /\ DOMAIN state_vector[1] = Bitstrings(n_qubits)
          /\ \A x, y \in Bitstrings(n_qubits) :
                /\ Norm2(state_vector[1][x]) = Norm2(state_vector[1][y])
                /\ Norm2(state_vector[1][x]) > 0
    /\ (pc = "returned" /\ AllParamsZero) =>
          /\ energy[1].num * Pow(2, n_qubits) =
                energy[1].den
                * SumOver(Partitions(n_qubits),
                          [p \in Partitions(n_qubits) |-> CostOf(numbers, p)])
          /\ energy[1].num =
                energy[1].den
                * SumOver(1 .. n_qubits,
                          [k \in 1 .. n_qubits |-> numbers[k] * numbers[k]])

\* C15 witness: three numbers, six parameters (one layer) all 0: the energy
\* is 72 / 8 = 9 = 4 + 1 + 4.
C15_Witness ==
    /\ pc = "returned"
    /\ numbers = <<2, -1, 2>>
    /\ params = <<0, 0, 0, 0, 0, 0>>
    /\ Len(ansatz[1].circuit) = 9
    /\ energy = << [num |-> 72, den |-> 8] >>

\* C16: the cost the dict stores for a partition is always compute_cost of
\* that partition, however often it was observed; and a shot whose partition
\* is already a key adds no entry, raises that partition's count by 1 and
\* leaves its stored cost and every other entry as they were.
C16_StoredCostFixed ==
    /\ [](\A k \in 1 .. Len(partition_costs) :
             partition_costs[k].cost = CostOf(numbers, partition_costs[k].partition))
    /\ [][(/\ shots_done' # shots_done
           /\ \E k \in 1 .. Len(partition_costs) :
                 partition_costs[k].partition =
                    [q \in 1 .. n_qubits |-> Spin(measurements[shots_done + 1][q])])
          =>
          /\ Len(partition_costs') = Len(partition_costs)
          /\ \A k \in 1 .. Len(partition_costs) :
                /\ partition_costs'[k].partition = partition_costs[k].partition
                /\ partition_costs'[k].cost = partition_costs[k].cost
                /\ partition_costs'[k].count =
                      partition_costs[k].count
                      + (IF partition_costs[k].partition =
                              [q \in 1 .. n_qubits |->
                                  Spin(measurements[shots_done + 1][q])]
                         THEN 1 ELSE 0)]_vars

\* C16 witness: the shots 00, 01, 00 on numbers <<2, -1>>: the partition of
\* 00 was observed again while the dict held a second entry; its cost is
\* still 1, its count 2, and the other entry is (cost 9, count 1).
C16_Witness ==
    /\ pc = "done"
    /\ numbers = <<2, -1>>
    /\ measurements = << <<0, 0>>, <<0, 1>>, <<0, 0>> >>
    /\ partition_costs =
          << [partition |-> <<1, 1>>, cost |-> 1, count |-> 2],
             [partition |-> <<1, -1>>, cost |-> 9, count |-> 1] >>

\* C17 (as claimed): the map from outcomes to partitions is many-to-one:
\* two different n-bit outcomes map to the same partition.
C17_AsClaimed ==
    \E b1, b2 \in Bitstrings(n_qubits) :
        b1 # b2 /\ bitstring_to_partition(b1) = bitstring_to_partition(b2)

\* C17: the map from outcomes to partitions (bit 0 to +1, bit 1 to -1) is
\* one-to-one: two different n-bit outcomes always map to different
\* partitions, so the dict has exactly one key for each distinct outcome
\* among the processed shots; only a repeated outcome meets an existing key.
C17_OutcomeMapInjective ==
    /\ pc = "optimized" =>
          \A b1, b2 \in Bitstrings(n_qubits) :
              b1 # b2 => bitstring_to_partition(b1) # bitstring_to_partition(b2)
    /\ \A k, l \in 1 .. Len(measurements) :
          measurements[k] # measurements[l] =>
             bitstring_to_partition(measurements[k])
                # bitstring_to_partition(measurements[l])
    /\ pc \in {"aggregate", "table", "done"} =>
          Len(partition_costs)
             = Cardinality({measurements[l] : l \in 1 .. shots_done})

\* C17 witness: the shots 01, 10, 01 on two qubits: two distinct outcomes,
\* two keys, the repeated outcome counted twice under its one key.
C17_Witness ==
    /\ pc = "done"
    /\ n_qubits = 2
    /\ measurements = << <<0, 1>>, <<1, 0>>, <<0, 1>> >>
    /\ Len(partition_costs) = 2
    /\ partition_costs[1].partition = <<1, -1>>
    /\ partition_costs[1].count = 2
    /\ partition_costs[2].partition = <<-1, 1>>

\* The index pairs (i, j), 0 <= i < j < n.
IndexPairs(n) == {pr \in (0 .. (n - 1)) \X (0 .. (n - 1)) : pr[1] < pr[2]}

\* The m-th pair (m from 0) in the order (0,1), (0,2), ..., (n-2, n-1).
PairAt(n, m) ==
    CHOOSE pr \in IndexPairs(n) :
        Cardinality({q \in IndexPairs(n) :
                        q[1] < pr[1] \/ (q[1] = pr[1] /\ q[2] < pr[2])}) = m

\* C18: for a parameter vector whose length is L times the per-layer count
\* n + n(n-1)/2, the circuit of create_ansatz is the n Hadamards followed by
\* exactly len(params) rotations; the k-th rotation (k from 0) has angle
\* params[k]; within each layer the first n rotations are rx on the qubits
\* 0 .. n-1 in order and the next n(n-1)/2 are ZZ rotations on the pairs in
\* the order (0,1), (0,2), ..., (n-2,n-1); param_idx ends at len(params).
C18_AnsatzLayout ==
    (pc # "ansatz" /\ Len(params) % PerLayer(n_qubits) = 0) =>
        LET a == ansatz[1]
            n == n_qubits
            per == PerLayer(n)
        IN  /\ ~a.error
            /\ a.n_layers * per = Len(params)
            /\ a.param_idx = Len(params)
            /\ Len(a.circuit) = n + Len(params)
            /\ \A k \in 1 .. n : a.circuit[k] = [gate |-> "H", q |-> k - 1]
            /\ \A k \in 0 .. (Len(params) - 1) :
                  LET g == a.circuit[n + k + 1]
                      r == k % per
                  IN  /\ g.angle = params[k + 1]
                      /\ IF r < n
                         THEN g.gate = "rx" /\ g.q = r
                         ELSE /\ g.gate = "ZZPow"
                              /\ <<g.i, g.j>> = PairAt(n, r - n)

\* C18 witness: three qubits and twelve distinct parameters (two layers):
\* the seventh parameter goes to the rx on qubit 0 of the second layer, the
\* twelfth to the last ZZ rotation, on the pair (1, 2).
C18_Witness ==
    /\ pc = "simulate"
    /\ n_qubits = 3
    /\ params = [k \in 1 .. 12 |-> k]
    /\ ansatz[1].n_layers = 2
    /\ ansatz[1].param_idx = 12
    /\ Len(ansatz[1].circuit) = 15
    /\ ansatz[1].circuit[10] = [gate |-> "rx", q |-> 0, angle |-> 7]
    /\ ansatz[1].circuit[15] = [gate |-> "ZZPow", i |-> 1, j |-> 2, angle |-> 12]

\* The circuit has been built.
CircuitBuilt == NumbersDefined /\ pc \notin {"cost", "mixer", "circuit"}

\* The positions of the circuit that hold a parameterised rotation.
Rotations == {k \in 1 .. Len(circuit) : circuit[k].gate \in {"ZZ", "X"}}

\* C19: the QAOA circuit is, in append order, one Hadamard per qubit, then
\* one cost rotation per Hamiltonian term (same pair, same weight, angle
\* weight*gamma), then one mixing rotation per qubit (angle beta), then the
\* measurement of all qubits; on every qubit each cost rotation touching it
\* comes before its mixing rotation; the only symbols are gamma and beta
\* (both occur when there are at least two qubits), and the vector handed to
\* objective has 2 entries.
C19_CircuitOrder ==
    CircuitBuilt =>
        LET n == n_qubits
            T == Len(cost_terms)
        IN  /\ Len(circuit) = n + T + n + 1
            /\ 2 * T = n * (n - 1)
            /\ \A k \in 1 .. n : circuit[k] = [gate |-> "H", q |-> k - 1]
            /\ \A k \in 1 .. T :
                  /\ circuit[n + k].gate = "ZZ"
                  /\ circuit[n + k].i = cost_terms[k].i
                  /\ circuit[n + k].j = cost_terms[k].j
                  /\ circuit[n + k].weight =
                        2 * numbers[cost_terms[k].i + 1] * numbers[cost_terms[k].j + 1]
                  /\ circuit[n + k].param = "gamma"
            /\ \A k \in 1 .. n :
                  circuit[n + T + k] = [gate |-> "X", q |-> k - 1, param |-> "beta"]
            /\ circuit[Len(circuit)].gate = "measure"
            /\ circuit[Len(circuit)].qs = [k \in 1 .. n |-> k - 1]
            /\ \A k, m \in Rotations :
                  (/\ circuit[k].gate = "ZZ"
                   /\ circuit[m].gate = "X"
                   /\ circuit[m].q \in {circuit[k].i, circuit[k].j}) => k < m
            /\ {circuit[k].param : k \in Rotations} \subseteq {"gamma", "beta"}
            /\ n >= 2 => {circuit[k].param : k \in Rotations} = {"gamma", "beta"}
            /\ pc = "evaluated" => Len(params) = 2

\* C19 witness: three qubits: ten operations, the fifth the cost rotation
\* of the pair (0, 2) with weight 8, the ninth the mixing rotation of qubit
\* 2; the circuit was run by objective.
C19_Witness ==
    /\ pc = "evaluated"
    /\ numbers = <<2, -1, 2>>
    /\ Len(circuit) = 10
    /\ circuit[5] = [gate |-> "ZZ", i |-> 0, j |-> 2, weight |-> 8, param |-> "gamma"]
    /\ circuit[9] = [gate |-> "X", q |-> 2, param |-> "beta"]
    /\ circuit[10].gate = "measure"

\* The number of operations of the circuit c that are gate g.
GateCount(c, g) == Cardinality({k \in 1 .. Len(c) : c[k].gate = g})

\* The parameters left over after the last whole layer.
Leftover == Len(params) % PerLayer(n_qubits)

\* C20 (as claimed): when the parameters run short within a layer (the
\* vector continues past its last whole layer with enough parameters for the
\* rx rotations but not for all ZZ rotations), that layer is built, the ZZ
\* rotations without a parameter are skipped by the bounds check without an
\* error, and the layer has fewer than n(n-1)/2 ZZ rotations.
C20_AsClaimed ==
    (pc # "ansatz" /\ Leftover >= n_qubits) =>
        LET a == ansatz[1]
        IN  /\ ~a.error
            /\ a.skipped > 0
            /\ GateCount(a.circuit, "rx") > a.n_layers * n_qubits
            /\ 2 * n_qubits * GateCount(a.circuit, "ZZPow")
                  < GateCount(a.circuit, "rx") * n_qubits * (n_qubits - 1)

\* C20: in create_ansatz the parameters never run short within a layer:
\* only floor(len(params) / (n + n(n-1)/2)) layers are built, whatever the
\* length; each has its n rx rotations followed by all n(n-1)/2 ZZ
\* rotations, the bounds check never fails (nothing is skipped, nothing
\* raises), and the parameters past the last whole layer are not read.
C20_LayersComplete ==
    pc # "ansatz" =>
        LET a == ansatz[1]
            n == n_qubits
            per == PerLayer(n)
        IN  /\ ~a.error
            /\ a.skipped = 0
            /\ a.n_layers * per <= Len(params)
            /\ Len(params) < (a.n_layers + 1) * per
            /\ a.param_idx = a.n_layers * per
            /\ Len(a.circuit) = n + a.n_layers * per
            /\ GateCount(a.circuit, "rx") = a.n_layers * n
            /\ 2 * GateCount(a.circuit, "ZZPow") = a.n_layers * n * (n - 1)
            /\ \A l \in 0 .. (a.n_layers - 1) :
                  /\ \A k \in 1 .. n : a.circuit[n + l * per + k].gate = "rx"
                  /\ \A k \in (n + 1) .. per : a.circuit[n + l * per + k].gate = "ZZPow"

\* C20 witness: three qubits and ten parameters: one whole layer of six and
\* four more, enough for the rx rotations of a second layer but not for its
\* ZZ rotations; one layer is built, nothing is skipped.
C20_Witness ==
    /\ pc = "simulate"
    /\ n_qubits = 3
    /\ params = [k \in 1 .. 10 |-> k]
    /\ Leftover = 4
    /\ ansatz[1].n_layers = 1
    /\ ansatz[1].skipped = 0
    /\ ansatz[1].param_idx = 6
    /\ Len(ansatz[1].circuit) = 9

\* The indices 0 .. n-1 at which partition p has the spin s.
IndicesOf(p, s) == {i \in 0 .. (Len(p) - 1) : p[i + 1] = s}

RECURSIVE ValuesAt(_, _)
\* The numbers at the indices of the set S, in increasing order of index.
ValuesAt(nums, S) ==
    IF S = {} THEN << >>
    ELSE LET i == CHOOSE x \in S : \A y \in S : x <= y
         IN  << nums[i + 1] >> \o ValuesAt(nums, S \ {i})

\* C21: when the table is built, there is one row for each reported
\* partition, in order; in every row the indices with spin +1 and those with
\* spin -1 are disjoint and together are 0 .. n-1, the first subset holds
\* the numbers at the former and the second the numbers at the latter; the
\* difference is sum(first) - sum(second) = sum_i a_i*spin_i, signed; its
\* square is the reported minimum cost; and the frequency is the count the
\* dict holds for the partition, the number of shots that gave it.
C21_ReportConsistent ==
    [](pc = "done" =>
          /\ Len(table_data) = Len(optimal_partitions)
          /\ \A k \in 1 .. Len(table_data) :
                LET row == table_data[k]
                    p == row.partition
                    A == IndicesOf(p, 1)
                    B == IndicesOf(p, -1)
                IN  /\ p = optimal_partitions[k]
                    /\ A \cap B = {}
                    /\ A \cup B = 0 .. (n_qubits - 1)
                    /\ row.sub_a = ValuesAt(numbers, A)
                    /\ row.sub_b = ValuesAt(numbers, B)
                    /\ Len(row.sub_a) + Len(row.sub_b) = n_qubits
                    /\ row.diff = SumOver(1 .. n_qubits,
                                          [i \in 1 .. n_qubits |-> numbers[i] * p[i]])
                    /\ row.diff =
                          SumOver(1 .. Len(row.sub_a), row.sub_a)
                          - SumOver(1 .. Len(row.sub_b), row.sub_b)
                    /\ min_cost = << row.diff * row.diff >>
                    /\ row.frequency = CountOf(partition_costs, p)
                    /\ row.frequency = ShotsOf(measurements, Len(measurements), p))

\* C21 witness: numbers <<2, -1, 2>> and two shots 011: the one reported row
\* is {2} against {-1, 2}, difference 2 - 1 = 1, minimum cost 1, frequency 2.
C21_Witness ==
    /\ pc = "done"
    /\ numbers = <<2, -1, 2>>
    /\ measurements = << <<0, 1, 1>>, <<0, 1, 1>> >>
    /\ min_cost = <<1>>
    /\ table_data =
          << [partition |-> <<1, -1, -1>>, sub_a |-> <<2>>, sub_b |-> <<-1, 2>>,
              diff |-> 1, frequency |-> 2] >>

\* The rotations of the circuit c, the n Hadamards at its head left out.
RotationsOf(c, n) == [k \in 1 .. (Len(c) - n) |-> c[n + k]]

\* C22: for every parameter-vector length and every n >= 1, create_ansatz
\* ends with param_idx <= len(params) (param_idx only grows, so it never
\* exceeded it), no read of params[param_idx] was out of range and the
\* bounds check never failed; with per = n + n(n-1)/2 the parameters read
\* are exactly the first floor(len/per)*per, one after the other, each by
\* one rotation; the len mod per parameters after them appear in no
\* rotation (seen where the angles are pairwise distinct); and a vector shorter than per gives the Hadamards alone.
C22_ParamIdxInRange ==
    pc # "ansatz" =>
        LET a == ansatz[1]
            n == n_qubits
            per == PerLayer(n)
            used == (Len(params) \div per) * per
            rot == RotationsOf(a.circuit, n)
        IN  /\ n >= 1
            /\ a.param_idx <= Len(params)
            /\ ~a.error
            /\ a.skipped = 0
            /\ a.param_idx = used
            /\ Len(params) - a.param_idx = Leftover
            /\ Len(rot) = used
            /\ \A k \in 1 .. used : rot[k].angle = params[k]
            /\ (\A k, l \in 1 .. Len(params) : k # l => params[k] # params[l]) =>
                  \A k \in (used + 1) .. Len(params) :
                      \A m \in 1 .. Len(rot) : rot[m].angle # params[k]
            /\ Len(params) < per =>
                  a.circuit = [k \in 1 .. n |-> [gate |-> "H", q |-> k - 1]]

\* C22 witness: two qubits and eight distinct parameters: two layers of
\* three, the last rotation reads the sixth parameter, the seventh and the
\* eighth are read by no rotation.
C22_Witness ==
    /\ pc = "simulate"
    /\ n_qubits = 2
    /\ params = [k \in 1 .. 8 |-> k]
    /\ ansatz[1].n_layers = 2
    /\ ansatz[1].param_idx = 6
    /\ Len(ansatz[1].circuit) = 8
    /\ ansatz[1].circuit[8] = [gate |-> "ZZPow", i |-> 0, j |-> 1, angle |-> 6]
    /\ ~ansatz[1].error

==========================================================================
